---- MODULE Spec2Model ----
(***************************************************************************)
(* A model of watson.framework.applications (Base, Http, Console): the     *)
(* construction protocol of an application and the request pipeline of     *)
(* Http.run with its exception handler.  Listeners are the environment:    *)
(* every trigger of an event returns a list of listener results or raises. *)
(* watson.framework.debug.toolbar (Toolbar) is modelled beside it.         *)
(***************************************************************************)
EXTENDS Integers, Sequences, FiniteSets, TLC

\* ------------------------------------------------------------------ bounds
MaxApps == 2            \* applications constructed in one behaviour
MaxRuns == 2            \* Http.run invocations in one behaviour
MaxFaults == 3          \* listener failures injected into a behaviour of Spec
MaxPanels == 2          \* panel modules in config['panels'] of a Toolbar
MaxBody == 2            \* pieces of a response body given to Toolbar.render
MaxRenders == 2         \* calls of Toolbar.render in one behaviour

Apps == 1..MaxApps

\* ------------------------------------------------------------------ values
\* An exception object: recognised = isinstance(exc, ApplicationError);
\* status = its status_code attribute, 0 when the object has none.
Exc(r, s) == [recognised |-> r, status |-> s]
NoneExc == Exc(FALSE, -1)                  \* Python None in an exception slot
NotFound == Exc(TRUE, 404)                 \* ApplicationError(code=404)
ServerError == Exc(TRUE, 500)              \* ApplicationError(code=500)
OtherError == Exc(FALSE, 0)                \* any other Exception (no status_code)
OtherWithStatus == Exc(FALSE, 503)         \* a foreign Exception with status_code
Exceptions == {NotFound, ServerError, OtherError, OtherWithStatus}

\* The outcome of calling listeners: a list of results, or a raised failure.
Returns(rs) == [raised |-> FALSE, exc |-> NoneExc, results |-> rs, controller |-> TRUE]
Raises(e) == [raised |-> TRUE, exc |-> e, results |-> <<>>, controller |-> TRUE]

RouteOutcomes ==
    {Returns(rs) : rs \in {<<>>, <<"none">>, <<"none", "route">>}}
        \cup {Raises(e) : e \in Exceptions}
\* controller = whether a listener stored params['controller_class'].
DispatchOutcomes ==
    {[Returns(rs) EXCEPT !.controller = c] :
        rs \in {<<>>, <<"none", "view">>, <<"response", "view">>}, c \in BOOLEAN}
        \cup {Raises(e) : e \in Exceptions}
ExceptionOutcomes ==
    {Returns(rs) : rs \in {<<>>, <<"none", "error_view">>, <<"response">>}}
        \cup {Raises(e) : e \in Exceptions}
RenderOutcomes == {Returns(<<>>)} \cup {Raises(e) : e \in Exceptions}

\* EventResult.first(): the first truthy listener result, None without one.
RECURSIVE first(_)
first(rs) ==
    IF rs = <<>> THEN "none"
    ELSE IF Head(rs) # "none" THEN Head(rs)
    ELSE first(Tail(rs))

\* ------------------------------------------------------------ configuration
EventNames == <<"INIT", "ROUTE_MATCH", "DISPATCH_EXECUTE", "RENDER_VIEW", "EXCEPTION", "COMPLETE">>

\* A listener entry of config['events'][name]: entry[0] is the identifier;
\* has_priority / has_once_only say whether the entry object carries the
\* attributes `priority` / `once_only`.
Entry(id, hp, p, ho, o) ==
    [id |-> id, has_priority |-> hp, priority |-> p, has_once_only |-> ho, once_only |-> o]
Plain(id) == Entry(id, FALSE, 0, FALSE, FALSE)

\* A config['events'] mapping: `keys` are its event names (indices into
\* EventNames) in the order in which the mapping iterates, `at` gives the
\* listener entries of each name (none for a name that is not a key).
NoEvents == [keys |-> <<>>, at |-> [e \in 1..Len(EventNames) |-> <<>>]]
\* watson.framework.config: the default listeners of the framework.
DefaultEvents ==
    [keys |-> <<2, 4>>,
     at |-> [NoEvents.at EXCEPT ![2] = <<Plain("listeners.Route")>>,
                                ![4] = <<Plain("listeners.Render")>>]]
\* The config['events'] a caller passes to the constructor.
InitOnly ==
    [keys |-> <<1>>,
     at |-> [NoEvents.at EXCEPT
                ![1] = <<Plain("app.on_init"), Entry("app.once", TRUE, 5, TRUE, TRUE)>>]]
\* RENDER_VIEW is the first key of this mapping, INIT the second.
InitAndRender ==
    [keys |-> <<4, 1>>,
     at |-> [NoEvents.at EXCEPT ![1] = <<Entry("app.late", TRUE, -1000, FALSE, FALSE)>>,
                                ![4] = <<Plain("app.render")>>]]
UserEvents == {NoEvents, InitOnly, InitAndRender}

\* A console command of config['commands']: its name, and whether the
\* mapping holds it as a string (a qualified name) or as a class.
Command(name, is_str) == [name |-> name, is_str |-> is_str]
\* find_commands_in_module(DefaultConsoleCommands): the commands of the framework.
DefaultConsoleCommands == {Command("project", FALSE)}
\* The config['commands'] a caller passes to the constructor.
UserCommands == {Command("application", FALSE), Command("routes", TRUE)}
\* The names get_command is called with.
CommandNames == {"project", "application", "routes", "missing"}
names_of(commands) == {c.name : c \in commands}
\* dict_deep_update on two mappings of commands: the caller's command wins.
merge_commands(base, conf) ==
    {c \in base : c.name \notin names_of(conf)} \cup conf

NoConfig == [set |-> FALSE, events |-> NoEvents, commands |-> {}]

\* The elements of a sequence.
Range(seq) == {seq[i] : i \in 1..Len(seq)}
\* The elements of `seq` that are not in `S`, in their order.
RECURSIVE without(_, _)
without(seq, S) ==
    IF seq = <<>> THEN <<>>
    ELSE (IF Head(seq) \in S THEN <<>> ELSE <<Head(seq)>>) \o without(Tail(seq), S)

\* dict_deep_update(defaults, conf): caller keys win, missing keys keep
\* defaults; the keys of the defaults keep their places and the new keys of
\* the caller follow them in the caller's order.
dict_deep_update(base, conf) ==
    [set |-> TRUE,
     events |-> [keys |-> base.events.keys \o without(conf.events.keys, Range(base.events.keys)),
                 at |-> [e \in 1..Len(EventNames) |->
                            IF e \in Range(conf.events.keys)
                            THEN conf.events.at[e] ELSE base.events.at[e]]],
     commands |-> merge_commands(base.commands, conf.commands)]

DefaultConfig == [set |-> TRUE, events |-> DefaultEvents, commands |-> {}]

\* The parameters of a RENDER_VIEW event (render's kwargs).
Params(keys, req, resp, vm) ==
    [keys |-> keys, request |-> req, response |-> resp, view_model |-> vm]
NoParams == Params({}, 0, 0, "unbound")

NoContainer ==
    [created |-> FALSE, builds |-> 0, application |-> 0, app_config |-> NoConfig,
     request |-> 0, render_event_params |-> NoParams, command_entries |-> {}]

\* -------------------------------------------------------------------- state
VARIABLES
    limits,       \* [apps, runs, faults, failures, events, commands]: what a behaviour explores
    global_app,   \* Base.global_app; 0 is None
    kind,         \* app -> "none" | "Http" | "Console": the class of the instance
    config,       \* app -> self._config
    container,    \* app -> the entries of self._container
    dispatcher,   \* app -> the registrations of self.dispatcher, in order of add()
    ctor,         \* the running __init__: [app, pc, arg]
    init_log,     \* app -> the steps its __init__ has performed
    runner,       \* app -> [set, calls]: Console.runner
    pc,           \* position of Http.run
    cur,          \* the application whose run is executing
    request,      \* run's local `request`; 0 before the first run
    route_match,  \* run's local `route_match`
    response,     \* run's local `response`: a Response id, 0 while unbound
    view_model,   \* run's local `view_model`
    stack,        \* the active handle_exception frames, innermost last
    trace,        \* what the current run has called, in order
    responses,    \* the Response objects the current run has seen
    returned,     \* the Response id run returned, 0 if none
    failure,      \* the failure that propagated out of run, NoneExc if none
    nreq,         \* Request objects created so far
    faults,       \* listener failures raised so far
    other,        \* a second invocation of Http.run, in another thread: [pc, app, request]
    toolbar       \* a debug Toolbar and the response its render listener was given

appVars == <<global_app, kind, config, dispatcher, ctor, init_log, runner>>
runVars == <<pc, cur, request, route_match, response, view_model, stack, trace,
             responses, returned, failure, nreq, faults>>
vars == <<limits, global_app, kind, config, container, dispatcher, ctor, init_log,
          runner, pc, cur, request, route_match, response, view_model, stack, trace,
          responses, returned, failure, nreq, faults, other, toolbar>>

\* config['panels'] of a Toolbar: the panel modules in the order of the
\* mapping, each with its settings['enabled'].
PanelIds == 1..MaxPanels
PanelConfigs == [PanelIds -> BOOLEAN]
\* A response body as the pieces str.replace tells apart: the closing tag
\* '</body>', other text, and the rendered TEMPLATE once injected.
Bodies == UNION {[1..n -> {"text", "</body>"}] : n \in 0..MaxBody}
\* view_model.format; "absent" is a view model without the attribute.
Formats == {"html", "json", "absent"}
\* No Toolbar has been constructed.
NoToolbar ==
    [pc |-> "none", config |-> [i \in PanelIds |-> FALSE], panels |-> <<>>,
     panel_event |-> [i \in PanelIds |-> 0], panel_listening |-> [i \in PanelIds |-> FALSE],
     listeners |-> <<>>, event |-> 0, format |-> "absent", before |-> <<>>,
     body |-> <<>>, raised |-> FALSE]

\* No second invocation of run is in progress.
NoOther == [pc |-> "idle", app |-> 0, request |-> 0]

InitState ==
    /\ global_app = 0
    /\ kind = [a \in Apps |-> "none"]
    /\ config = [a \in Apps |-> NoConfig]
    /\ container = [a \in Apps |-> NoContainer]
    /\ dispatcher = [a \in Apps |-> <<>>]
    /\ ctor = [app |-> 0, pc |-> "idle", arg |-> NoEvents]
    /\ init_log = [a \in Apps |-> <<>>]
    /\ runner = [a \in Apps |-> [set |-> FALSE, calls |-> FALSE, commands |-> {}]]
    /\ pc = "idle"
    /\ cur = 0
    /\ request = 0
    /\ route_match = "unbound"
    /\ response = 0
    /\ view_model = "unbound"
    /\ stack = <<>>
    /\ trace = <<>>
    /\ responses = <<>>
    /\ returned = 0
    /\ failure = NoneExc
    /\ nreq = 0
    /\ faults = 0
    /\ other = NoOther
    /\ toolbar = NoToolbar

\* The request pipeline: one application, one run, up to MaxFaults failures
\* of every kind.
Init ==
    /\ InitState
    /\ limits = [apps |-> 1, runs |-> 1, faults |-> MaxFaults, failures |-> Exceptions,
                 events |-> {InitAndRender}, commands |-> UserCommands]
\* The life of applications: several of them, constructed from every
\* configuration and run several times with listeners that return normally
\* (the failures of listeners are explored by Spec).
InitApp ==
    /\ InitState
    /\ limits = [apps |-> MaxApps, runs |-> MaxRuns, faults |-> 0, failures |-> {},
                 events |-> UserEvents, commands |-> UserCommands]
\* A debug toolbar, constructed from every configuration of its panels and
\* called with every response body and view model format.
InitToolbar ==
    /\ InitState
    /\ limits = [apps |-> 0, runs |-> 0, faults |-> 0, failures |-> {}, events |-> {},
                 commands |-> {}]
\* Console applications, constructed from every configuration, whose commands
\* are looked up by every name.
InitConsole ==
    /\ InitState
    /\ limits = [apps |-> MaxApps, runs |-> 0, faults |-> 0, failures |-> {},
                 events |-> UserEvents, commands |-> UserCommands]
\* One application serving requests from two threads: its run is invoked
\* while another invocation of it is in progress, with listeners that return
\* normally.
InitThreads ==
    /\ InitState
    /\ limits = [apps |-> 1, runs |-> MaxRuns, faults |-> 0, failures |-> {},
                 events |-> {InitAndRender}, commands |-> UserCommands]

Running == pc # "idle"
Constructing == ctor.pc # "idle"
Constructed(a) == kind[a] # "none" /\ ctor.app # a

\* ------------------------------------------------------- Base: construction
Step(name, ls) == [step |-> name, listeners |-> ls]

\* The container getter and setter: created on first access, holding the
\* application under 'application'; builds counts the containers created.
container_get(c, a) ==
    IF c.created THEN c
    ELSE [NoContainer EXCEPT !.created = TRUE, !.builds = c.builds + 1, !.application = a]

\* container.add(key, item): the entry `key` holds the item from now on, no
\* longer the qualified name of a command that get_command stored under it.
container_add(c, key) == [c EXCEPT !.command_entries = @ \ {key}]

\* The config setter: merge onto the defaults, publish under 'application.config'.
config_set(a, conf) ==
    LET merged == dict_deep_update(DefaultConfig, conf)
    IN  /\ config' = [config EXCEPT ![a] = merged]
        /\ container' = [container EXCEPT
                ![a] = [container_add(container_get(container[a], a), "application.config")
                            EXCEPT !.app_config = merged]]

\* One dispatcher.add(event, container.get(entry[0]), priority, once_only).
registration_defaults(name, entry) ==
    [event |-> name, listener |-> entry.id, priority |-> 1, once_only |-> FALSE]
registration(name, entry) ==
    [event |-> name,
     listener |-> entry.id,
     priority |-> IF entry.has_priority THEN entry.priority ELSE 1,
     once_only |-> IF entry.has_once_only THEN entry.once_only ELSE FALSE]

\* register_events, lines 115-129: the registrations for the keys of
\* config['events'] from the k-th on, in the order of the mapping.
RECURSIVE register_events(_, _)
register_events(events, k) ==
    IF k > Len(events.keys) THEN <<>>
    ELSE LET e == events.keys[k]
         IN  [i \in 1..Len(events.at[e]) |-> registration(EventNames[e], events.at[e][i])]
                \o register_events(events, k + 1)

\* The listeners a trigger of `name` calls.
listeners_of(regs, name) ==
    {regs[i].listener : i \in {j \in 1..Len(regs) : regs[j].event = name}}

\* Base.__init__, line 99: the value Base.global_app takes.
global_app_kept(old, a) == IF old = 0 THEN a ELSE old
new_global_app(old, a) == a

\* Base.__init__, lines 100-102: what follows the step `p`.
init_skips_register(p) == "init"
next_init_step(p) == IF p = "config" THEN "register" ELSE "init"

\* Base.__init__, line 99: Base.global_app = self
Base_init(a, k, events) ==
    /\ ~Constructing /\ ~Running
    /\ a <= limits.apps
    /\ events \in limits.events
    /\ kind[a] = "none"
    /\ \A b \in Apps : b < a => kind[b] # "none"
    /\ global_app' = new_global_app(global_app, a)
    /\ kind' = [kind EXCEPT ![a] = k]
    /\ ctor' = [app |-> a, pc |-> "config", arg |-> events]
    /\ init_log' = [init_log EXCEPT ![a] = <<Step("global_app", {})>>]
    /\ UNCHANGED <<limits, config, container, dispatcher, runner>>
    /\ UNCHANGED runVars
    /\ UNCHANGED <<other, toolbar>>

\* Base.__init__, line 100: self.config = config or {}
Base_init_config ==
    /\ ctor.pc = "config"
    /\ config_set(ctor.app, [NoConfig EXCEPT !.events = ctor.arg,
                                             !.commands = limits.commands])
    /\ ctor' = [ctor EXCEPT !.pc = next_init_step("config")]
    /\ init_log' = [init_log EXCEPT ![ctor.app] = Append(@, Step("config", {}))]
    /\ UNCHANGED <<limits, global_app, kind, dispatcher, runner>>
    /\ UNCHANGED runVars
    /\ UNCHANGED <<other, toolbar>>

\* Base.__init__, line 101: self.register_events()
Base_init_register ==
    /\ ctor.pc = "register"
    /\ dispatcher' = [dispatcher EXCEPT
            ![ctor.app] = @ \o register_events(config[ctor.app].events, 1)]
    /\ ctor' = [ctor EXCEPT !.pc = next_init_step("register")]
    /\ init_log' = [init_log EXCEPT ![ctor.app] = Append(@, Step("register_events", {}))]
    /\ UNCHANGED <<limits, global_app, kind, config, container, runner>>
    /\ UNCHANGED runVars
    /\ UNCHANGED <<other, toolbar>>

\* Base.__init__, line 102: self.trigger_init_event()
trigger_init_event ==
    /\ ctor.pc = "init"
    /\ init_log' = [init_log EXCEPT ![ctor.app] =
            Append(@, Step("INIT", listeners_of(dispatcher[ctor.app], "INIT")))]
    /\ ctor' = IF kind[ctor.app] = "Console"
               THEN [ctor EXCEPT !.pc = "console"]
               ELSE [app |-> 0, pc |-> "idle", arg |-> NoEvents]
    /\ UNCHANGED <<limits, global_app, kind, config, container, dispatcher, runner>>
    /\ UNCHANGED runVars
    /\ UNCHANGED <<other, toolbar>>

\* Console.__init__, lines 240-244: the commands are merged into the
\* configuration and the runner is created.
Console_init ==
    /\ ctor.pc = "console"
    /\ config_set(ctor.app, [config[ctor.app] EXCEPT
            !.commands = merge_commands(DefaultConsoleCommands, @)])
    /\ runner' = [runner EXCEPT ![ctor.app] =
            [set |-> TRUE, calls |-> FALSE,
             commands |-> merge_commands(DefaultConsoleCommands, config[ctor.app].commands)]]
    /\ ctor' = [app |-> 0, pc |-> "idle", arg |-> NoEvents]
    /\ UNCHANGED <<limits, global_app, kind, dispatcher, init_log>>
    /\ UNCHANGED runVars
    /\ UNCHANGED <<other, toolbar>>

\* Console.run: return self.runner()
Console_run(a) ==
    /\ ~Constructing /\ ~Running
    /\ Constructed(a) /\ kind[a] = "Console"
    /\ ~runner[a].calls
    /\ runner' = [runner EXCEPT ![a].calls = TRUE]
    /\ UNCHANGED <<limits, global_app, kind, config, container, dispatcher, ctor, init_log>>
    /\ UNCHANGED runVars
    /\ UNCHANGED <<other, toolbar>>

\* Console.get_command, lines 249-256, which the runner calls back (line
\* 244): an unknown name yields None; a command held as a class is stored in
\* the container under its own name, as its qualified name, whatever entry
\* that name held; the entry of that name is resolved and returned.
Console_get_command(a, name) ==
    /\ ~Constructing /\ ~Running
    /\ Constructed(a) /\ kind[a] = "Console"
    /\ runner[a].set
    /\ IF name \notin names_of(runner[a].commands)
       THEN UNCHANGED container
       ELSE LET command == CHOOSE c \in runner[a].commands : c.name = name
            IN  IF ~command.is_str
                THEN container' = [container EXCEPT
                        ![a] = [container_get(@, a) EXCEPT !.command_entries = @ \cup {name}]]
                ELSE UNCHANGED container
    /\ UNCHANGED limits
    /\ UNCHANGED appVars
    /\ UNCHANGED runVars
    /\ UNCHANGED <<other, toolbar>>

\* ------------------------------------------------------------ Http: run
\* One entry of the trace: an event triggered through the dispatcher
\* (ROUTE_MATCH, DISPATCH_EXECUTE, RENDER_VIEW, EXCEPTION, COMPLETE), a direct
\* call of the fallback listener ("app_render_listener") or an entry into
\* handle_exception ("handle_exception").  ok = the call returned normally;
\* first = EventResult.first() of the results; depth = the number of
\* handle_exception frames active at the call.
Ev(name, params, o, depth) ==
    [ev |-> name, params |-> params, exc |-> o.exc, ok |-> ~o.raised,
     first |-> first(o.results), depth |-> depth]
\* An entry into handle_exception with the failure `exc`.
Call(params, exc, depth) ==
    [ev |-> "handle_exception", params |-> params, exc |-> exc, ok |-> TRUE,
     first |-> "none", depth |-> depth]

\* A Response object.
Response(status, origin) == [status |-> status, body |-> "", origin |-> origin]

\* A handle_exception frame: its kwargs (keys = the keys present), its
\* last_exception argument, its position and the place in run that called it.
Frame(site, keys, exc, last, req, rm, resp, vm) ==
    [site |-> site, pc |-> "trigger", keys |-> keys, exception |-> exc,
     last_exception |-> last, request |-> req, route_match |-> rm,
     response |-> resp, view_model |-> vm]

Top == stack[Len(stack)]
SetTop(f) == [stack EXCEPT ![Len(stack)] = f]
Count(name) == Cardinality({i \in 1..Len(trace) : trace[i].ev = name})

\* A failure leaves run: every frame is unwound.
Escape(e) ==
    /\ pc' = "escaped"
    /\ failure' = e
    /\ stack' = <<>>

\* A listener may fail only while the behaviour's failure budget lasts, and
\* only with a failure the behaviour explores.
Fault(o) ==
    /\ o.raised => faults < limits.faults /\ o.exc \in limits.failures
    /\ faults' = IF o.raised THEN faults + 1 ELSE faults

\* run, line 167: `if route_match:` decides between dispatch and render.
always_dispatch(rm) == "dispatch"
after_route(rm) == IF rm # "none" THEN "dispatch" ELSE "render"

\* run, line 181: `if not isinstance(view_model, Response):`
render_inverted(vm) == vm = "response"
always_render(vm) == TRUE
needs_render(vm) == vm # "response"

\* handle_exception, line 203: `if last_exception:` selects the fallback
\* render before the dispatcher-driven one.
never_fallback(last) == "render"
after_trigger(last) == IF last # NoneExc THEN "fallback" ELSE "render"

\* handle_exception, line 197: Response(kwargs['exception'].status_code)
exception_response(exc) == Response(exc.status, "exception")

\* run, lines 154-157: the request is created and published.
Http_run(a) ==
    /\ ~Constructing /\ ~Running
    /\ Constructed(a) /\ kind[a] = "Http"
    /\ nreq < limits.runs
    /\ nreq' = nreq + 1
    /\ request' = nreq + 1
    /\ container' = [container EXCEPT
            ![a] = [container_add(container_get(@, a), "request") EXCEPT
                        !.request = nreq + 1]]
    /\ cur' = a
    /\ pc' = "route"
    /\ route_match' = "unbound"
    /\ response' = 0
    /\ view_model' = "unbound"
    /\ stack' = <<>>
    /\ trace' = <<>>
    /\ responses' = <<>>
    /\ returned' = 0
    /\ failure' = NoneExc
    /\ UNCHANGED <<limits, faults>>
    /\ UNCHANGED appVars
    /\ UNCHANGED <<other, toolbar>>

recognised_only(site, exc) == exc.recognised

\* run, lines 164, 179 and 184: the except clauses of the three stages. The
\* route-match and dispatch stages catch ApplicationError, the render stage
\* catches Exception.
catches(site, exc) == site = "render" \/ exc.recognised

\* run, lines 158-166: trigger ROUTE_MATCH; an ApplicationError is handled.
run_route_match(o) ==
    /\ pc = "route" /\ stack = <<>>
    /\ Fault(o)
    /\ LET ev == Ev("ROUTE_MATCH", Params({"request", "router"}, request, 0, "unbound"), o, 0)
           keys == {"exception", "request"}
       IN  IF ~o.raised
           THEN /\ route_match' = first(o.results)
                /\ pc' = after_route(first(o.results))
                /\ trace' = Append(trace, ev)
                /\ UNCHANGED <<stack, failure>>
           ELSE IF catches("route", o.exc)
           THEN /\ route_match' = "none"
                /\ stack' = <<Frame("route", keys, o.exc, NoneExc, request, "unbound", 0, "unbound")>>
                /\ trace' = trace \o <<ev, Call(Params(keys, request, 0, "unbound"), o.exc, 1)>>
                /\ UNCHANGED <<pc, failure>>
           ELSE /\ Escape(o.exc)
                /\ trace' = Append(trace, ev)
                /\ UNCHANGED route_match
    /\ UNCHANGED <<limits, container, cur, request, response, view_model, responses,
                   returned, nreq>>
    /\ UNCHANGED appVars
    /\ UNCHANGED <<other, toolbar>>

\* run, lines 167-180: trigger DISPATCH_EXECUTE for a matched route.
run_dispatch(o) ==
    /\ pc = "dispatch" /\ stack = <<>>
    /\ Fault(o)
    /\ LET ev == Ev("DISPATCH_EXECUTE",
                    Params({"route_match", "request", "container"}, request, 0, "unbound"),
                    o, 0)
           keys == {"exception", "request", "route_match"}
       IN  IF ~o.raised /\ o.controller
           THEN /\ responses' = Append(responses, Response(200, "controller"))
                /\ response' = Len(responses) + 1
                /\ view_model' = first(o.results)
                /\ pc' = "render"
                /\ trace' = Append(trace, ev)
                /\ UNCHANGED <<stack, failure>>
           ELSE IF ~o.raised
           THEN \* params['controller_class'] is missing: KeyError
                /\ Escape(OtherError)
                /\ trace' = Append(trace, ev)
                /\ UNCHANGED <<responses, response, view_model>>
           ELSE IF catches("dispatch", o.exc)
           THEN /\ stack' = <<Frame("dispatch", keys, o.exc, NoneExc, request, route_match, 0, "unbound")>>
                /\ trace' = trace \o <<ev, Call(Params(keys, request, 0, "unbound"), o.exc, 1)>>
                /\ UNCHANGED <<pc, failure, responses, response, view_model>>
           ELSE /\ Escape(o.exc)
                /\ trace' = Append(trace, ev)
                /\ UNCHANGED <<responses, response, view_model>>
    /\ UNCHANGED <<limits, container, cur, request, route_match, returned, nreq>>
    /\ UNCHANGED appVars
    /\ UNCHANGED <<other, toolbar>>

\* ---------------------------------------------------------- Http: render
\* render, lines 213-214: the event built from kwargs plus the container.
render_event(with_dispatcher, params, o, depth) ==
    Ev(IF with_dispatcher THEN "RENDER_VIEW" ELSE "app_render_listener",
       [params EXCEPT !.keys = @ \cup {"container"}], o, depth)

always_publish(with_dispatcher, params) ==
    [container EXCEPT ![cur].render_event_params =
                [params EXCEPT !.keys = @ \cup {"container"}]]

\* render, lines 215-216: only the dispatcher path publishes its kwargs.
render_container(with_dispatcher, params) ==
    IF with_dispatcher
    THEN [container EXCEPT
            ![cur] = [container_add(container_get(@, cur), "render_event_params") EXCEPT
                !.render_event_params = [params EXCEPT !.keys = @ \cup {"container"}]]]
    ELSE container

\* render, lines 217-220: a listener that returns has written the body of
\* the response it was given.
render_body(with_dispatcher, params, o) ==
    IF ~o.raised /\ params.response \in 1..Len(responses)
    THEN [responses EXCEPT ![params.response].body =
                IF with_dispatcher THEN "RENDER_VIEW" ELSE "app_render_listener"]
    ELSE responses

\* run, lines 181-185: render unless the view model is a Response; every
\* Exception is handled.
run_render(o) ==
    /\ pc = "render" /\ stack = <<>>
    /\ LET params == Params({"request", "response", "view_model"},
                            request, response, view_model)
           keys == {"exception", "request", "route_match"}
       IN  IF view_model = "unbound"
           THEN \* line 181 reads a local that was never assigned: UnboundLocalError
                /\ o = Returns(<<>>)
                /\ Escape(OtherError)
                /\ UNCHANGED <<container, trace, responses, faults>>
           ELSE IF ~needs_render(view_model)
           THEN /\ o = Returns(<<>>)
                /\ pc' = "complete"
                /\ UNCHANGED <<container, trace, responses, faults, stack, failure>>
           ELSE /\ Fault(o)
                /\ container' = render_container(TRUE, params)
                /\ responses' = render_body(TRUE, params, o)
                /\ IF ~o.raised
                   THEN /\ pc' = "complete"
                        /\ trace' = Append(trace, render_event(TRUE, params, o, 0))
                        /\ UNCHANGED <<stack, failure>>
                   ELSE IF catches("render", o.exc)
                   THEN /\ stack' = <<Frame("render", keys, o.exc, NoneExc, request,
                                            route_match, 0, "unbound")>>
                        /\ trace' = trace \o <<render_event(TRUE, params, o, 0),
                                Call(Params(keys, request, 0, "unbound"), o.exc, 1)>>
                        /\ UNCHANGED <<pc, failure>>
                   ELSE /\ Escape(o.exc)
                        /\ trace' = Append(trace, render_event(TRUE, params, o, 0))
    /\ UNCHANGED <<limits, cur, request, route_match, response, view_model, returned, nreq>>
    /\ UNCHANGED appVars
    /\ UNCHANGED <<other, toolbar>>

\* run, lines 186-189: trigger COMPLETE and return the response.
run_complete ==
    /\ pc = "complete" /\ stack = <<>>
    /\ trace' = Append(trace, Ev("COMPLETE", Params({"container"}, 0, 0, "unbound"),
                                 Returns(<<>>), 0))
    /\ returned' = response
    /\ pc' = "returned"
    /\ UNCHANGED <<limits, container, cur, request, route_match, response, view_model,
                   stack, responses, failure, nreq, faults>>
    /\ UNCHANGED appVars
    /\ UNCHANGED <<other, toolbar>>

\* The caller has the result of run (the returned Response or the failure):
\* the locals of the finished call are gone.
run_exit ==
    /\ pc \in {"returned", "escaped"}
    /\ pc' = "idle"
    /\ cur' = 0
    /\ route_match' = "unbound"
    /\ response' = 0
    /\ view_model' = "unbound"
    /\ trace' = <<>>
    /\ responses' = <<>>
    /\ returned' = 0
    /\ failure' = NoneExc
    /\ UNCHANGED <<limits, container, request, stack, nreq, faults>>
    /\ UNCHANGED appVars
    /\ UNCHANGED <<other, toolbar>>

\* ------------------------------------------------ Http: handle_exception
\* handle_exception, lines 195-202: trigger EXCEPTION, build the Response
\* from the failure's status code, take the first truthy result.
handle_exception_trigger(o) ==
    /\ stack # <<>> /\ Top.pc = "trigger"
    /\ Fault(o)
    /\ trace' = Append(trace, Ev("EXCEPTION",
            Params(Top.keys, Top.request, Top.response, Top.view_model), o, Len(stack)))
    /\ IF o.raised
       THEN Escape(o.exc) /\ UNCHANGED responses
       ELSE IF Top.exception.status = 0
       THEN \* the failure has no status_code: AttributeError
            Escape(OtherError) /\ UNCHANGED responses
       ELSE /\ responses' = Append(responses, exception_response(Top.exception))
            /\ stack' = SetTop([Top EXCEPT
                    !.response = Len(responses) + 1,
                    !.view_model = first(o.results),
                    !.keys = @ \cup {"response", "view_model"},
                    !.pc = after_trigger(Top.last_exception)])
            /\ UNCHANGED <<pc, failure>>
    /\ UNCHANGED <<limits, container, cur, request, route_match, response, view_model,
                   returned, nreq>>
    /\ UNCHANGED appVars
    /\ UNCHANGED <<other, toolbar>>

\* handle_exception, lines 203-204: with last_exception set, the fallback
\* listener renders first, outside any try.
handle_exception_fallback(o) ==
    /\ stack # <<>> /\ Top.pc = "fallback"
    /\ Fault(o)
    /\ LET params == Params(Top.keys, Top.request, Top.response, Top.view_model)
       IN  /\ container' = render_container(FALSE, params)
           /\ responses' = render_body(FALSE, params, o)
           /\ trace' = Append(trace, render_event(FALSE, params, o, Len(stack)))
    /\ IF o.raised
       THEN Escape(o.exc)
       ELSE /\ stack' = SetTop([Top EXCEPT !.pc = "render"])
            /\ UNCHANGED <<pc, failure>>
    /\ UNCHANGED <<limits, cur, request, route_match, response, view_model, returned, nreq>>
    /\ UNCHANGED appVars
    /\ UNCHANGED <<other, toolbar>>

\* The frame of the recursive call of line 209, pushed on the caller's frame.
recurse(f, exc) ==
    Frame(f.site, f.keys, exc, exc, f.request, f.route_match, f.response, f.view_model)

\* handle_exception, lines 205-209: the dispatcher-driven render; a failure
\* is stored in the kwargs of this call (line 208) and re-enters
\* handle_exception with last_exception set.
handle_exception_render(o) ==
    /\ stack # <<>> /\ Top.pc = "render"
    /\ Fault(o)
    /\ LET params == Params(Top.keys, Top.request, Top.response, Top.view_model)
           ev == render_event(TRUE, params, o, Len(stack))
       IN  /\ container' = render_container(TRUE, params)
           /\ responses' = render_body(TRUE, params, o)
           /\ IF ~o.raised
              THEN /\ stack' = SetTop([Top EXCEPT !.pc = "return"])
                   /\ trace' = Append(trace, ev)
              ELSE /\ stack' = Append(SetTop([Top EXCEPT !.pc = "return",
                                                         !.exception = o.exc]),
                                      recurse(Top, o.exc))
                   /\ trace' = trace \o <<ev, Call(params, o.exc, Len(stack) + 1)>>
    /\ UNCHANGED <<limits, pc, failure, cur, request, route_match, response, view_model,
                   returned, nreq>>
    /\ UNCHANGED appVars
    /\ UNCHANGED <<other, toolbar>>

\* handle_exception, line 210: return response, view_model.  run assigns the
\* pair (lines 166, 180, 185); the recursive call of line 209 discards it.
handle_exception_return ==
    /\ stack # <<>> /\ Top.pc = "return"
    /\ stack' = SubSeq(stack, 1, Len(stack) - 1)
    /\ IF Len(stack) = 1
       THEN /\ response' = Top.response
            /\ view_model' = Top.view_model
            /\ pc' = IF Top.site = "render" THEN "complete"
                     ELSE IF Top.site = "route" THEN after_route(route_match)
                     ELSE "render"
       ELSE UNCHANGED <<response, view_model, pc>>
    /\ UNCHANGED <<limits, container, cur, request, route_match, trace, responses,
                   returned, failure, nreq, faults>>
    /\ UNCHANGED appVars
    /\ UNCHANGED <<other, toolbar>>

\* ------------------------------------------- Http: run in a second thread
\* The Response of the controller that the second invocation dispatched to:
\* an object that is not among the responses of the first invocation.
OtherResponse == 0 - 1

\* run, lines 154-157, in the second thread: the request is created and
\* published in the container of the application.
other_Http_run(a) ==
    /\ ~Constructing
    /\ Constructed(a) /\ kind[a] = "Http"
    /\ other.pc = "idle"
    /\ nreq < limits.runs
    /\ nreq' = nreq + 1
    /\ other' = [pc |-> "route", app |-> a, request |-> nreq + 1]
    /\ container' = [container EXCEPT
            ![a] = [container_add(container_get(@, a), "request") EXCEPT
                        !.request = nreq + 1]]
    /\ UNCHANGED <<limits, pc, cur, request, route_match, response, view_model, stack,
                   trace, responses, returned, failure, faults, toolbar>>
    /\ UNCHANGED appVars

\* run, lines 158-180, in the second thread: ROUTE_MATCH yields a route and
\* DISPATCH_EXECUTE a view model; neither stage writes to the container.
other_run_dispatch ==
    /\ other.pc = "route"
    /\ other' = [other EXCEPT !.pc = "render"]
    /\ UNCHANGED <<limits, container>>
    /\ UNCHANGED appVars
    /\ UNCHANGED runVars
    /\ UNCHANGED toolbar

\* run, lines 181-183 and render, lines 213-217, in the second thread: the
\* parameters of its render event are published in the container.
other_run_render ==
    /\ other.pc = "render"
    /\ other' = [other EXCEPT !.pc = "complete"]
    /\ container' = [container EXCEPT ![other.app] =
            [container_add(container_get(@, other.app), "render_event_params")
             EXCEPT !.render_event_params =
                Params({"request", "response", "view_model", "container"},
                       other.request, OtherResponse, "view")]]
    /\ UNCHANGED limits
    /\ UNCHANGED appVars
    /\ UNCHANGED runVars
    /\ UNCHANGED toolbar

\* run, lines 186-189, in the second thread: COMPLETE, and the call returns.
other_run_complete ==
    /\ other.pc = "complete"
    /\ other' = NoOther
    /\ UNCHANGED <<limits, container>>
    /\ UNCHANGED appVars
    /\ UNCHANGED runVars
    /\ UNCHANGED toolbar

\* ---------------------------------------------------------- debug Toolbar
\* Toolbar.__init__, line 159: `if settings['enabled']:`
loads_panel(settings) == settings

\* Toolbar.__init__, lines 158-163: the panels instantiated, in the order of
\* config['panels'].
RECURSIVE load_panels(_, _)
load_panels(cfg, i) ==
    IF i > MaxPanels THEN <<>>
    ELSE (IF loads_panel(cfg[i]) THEN <<i>> ELSE <<>>) \o load_panels(cfg, i + 1)

\* Toolbar.__init__, lines 151-163: every enabled panel is instantiated, has
\* its listeners registered and is stored under its module name.
Toolbar_init(cfg) ==
    /\ toolbar.pc = "none"
    /\ toolbar' = [toolbar EXCEPT
            !.pc = "built",
            !.config = cfg,
            !.panels = load_panels(cfg, 1),
            !.panel_listening = [i \in PanelIds |-> i \in Range(load_panels(cfg, 1))]]
    /\ UNCHANGED <<limits, container, other>>
    /\ UNCHANGED appVars
    /\ UNCHANGED runVars

\* Toolbar.register_listeners, lines 165-166: Toolbar.render is added for
\* RENDER_VIEW with priority -1000.
Toolbar_register_listeners ==
    /\ toolbar.pc = "built"
    /\ toolbar' = [toolbar EXCEPT
            !.pc = "listening",
            !.listeners = Append(@, [event |-> "RENDER_VIEW", listener |-> "Toolbar.render",
                                     priority |-> 0 - 1000, once_only |-> FALSE])]
    /\ UNCHANGED <<limits, container, other>>
    /\ UNCHANGED appVars
    /\ UNCHANGED runVars

\* Toolbar.render, line 174: `if view_model.format == 'html':`
injects_always(format) == TRUE
injects(format) == format = "html"

\* str.replace(replace_tag, html_body), lines 175-178: every occurrence of
\* '</body>' becomes the rendered TEMPLATE followed by '</body>'.
RECURSIVE replace(_)
replace(body) ==
    IF body = <<>> THEN <<>>
    ELSE (IF Head(body) = "</body>" THEN <<"TEMPLATE", "</body>">> ELSE <<Head(body)>>)
            \o replace(Tail(body))

\* Toolbar.render, lines 168-178, called with a render event whose response
\* has the body `body` and whose view model has the format `format`.
Toolbar_render(body, format) ==
    /\ toolbar.pc = "listening"
    /\ toolbar.event < MaxRenders
    /\ toolbar' = [toolbar EXCEPT
            !.event = @ + 1,
            !.panel_event = [i \in PanelIds |->
                                IF i \in Range(toolbar.panels) THEN toolbar.event + 1 ELSE @[i]],
            !.format = format,
            !.before = body,
            !.raised = (format = "absent"),
            !.body = IF format # "absent" /\ injects(format) THEN replace(body) ELSE body]
    /\ UNCHANGED <<limits, container, other>>
    /\ UNCHANGED appVars
    /\ UNCHANGED runVars

\* -------------------------------------------------------- specifications
Next ==
    \/ \E a \in Apps, k \in {"Http", "Console"}, events \in UserEvents : Base_init(a, k, events)
    \/ Base_init_config
    \/ Base_init_register
    \/ trigger_init_event
    \/ Console_init
    \/ \E a \in Apps : Console_run(a)
    \/ \E a \in Apps, name \in CommandNames : Console_get_command(a, name)
    \/ \E a \in Apps : Http_run(a)
    \/ \E o \in RouteOutcomes : run_route_match(o)
    \/ \E o \in DispatchOutcomes : run_dispatch(o)
    \/ \E o \in RenderOutcomes : run_render(o)
    \/ run_complete
    \/ run_exit
    \/ \E o \in ExceptionOutcomes : handle_exception_trigger(o)
    \/ \E o \in RenderOutcomes : handle_exception_fallback(o)
    \/ \E o \in RenderOutcomes : handle_exception_render(o)
    \/ handle_exception_return

\* The steps of console applications: construction, run, and the lookups of
\* commands.
NextConsole ==
    \/ \E a \in Apps, k \in {"Http", "Console"}, events \in UserEvents : Base_init(a, k, events)
    \/ Base_init_config
    \/ Base_init_register
    \/ trigger_init_event
    \/ Console_init
    \/ \E a \in Apps : Console_run(a)
    \/ \E a \in Apps, name \in CommandNames : Console_get_command(a, name)

\* The construction of applications and the runs of Http.run (the lookups of
\* console commands are explored by SpecConsole).
NextApp ==
    \/ \E a \in Apps, k \in {"Http", "Console"}, events \in UserEvents : Base_init(a, k, events)
    \/ Base_init_config
    \/ Base_init_register
    \/ trigger_init_event
    \/ Console_init
    \/ \E a \in Apps : Console_run(a)
    \/ \E a \in Apps : Http_run(a)
    \/ \E o \in RouteOutcomes : run_route_match(o)
    \/ \E o \in DispatchOutcomes : run_dispatch(o)
    \/ \E o \in RenderOutcomes : run_render(o)
    \/ run_complete
    \/ run_exit

\* The steps of an application whose run is invoked from two threads.
NextThreads ==
    \/ \E a \in Apps, k \in {"Http", "Console"}, events \in UserEvents : Base_init(a, k, events)
    \/ Base_init_config
    \/ Base_init_register
    \/ trigger_init_event
    \/ Console_init
    \/ \E a \in Apps : Console_run(a)
    \/ \E a \in Apps, name \in CommandNames : Console_get_command(a, name)
    \/ \E a \in Apps : Http_run(a)
    \/ \E o \in RouteOutcomes : run_route_match(o)
    \/ \E o \in DispatchOutcomes : run_dispatch(o)
    \/ \E o \in RenderOutcomes : run_render(o)
    \/ run_complete
    \/ run_exit
    \/ \E a \in Apps : other_Http_run(a)
    \/ other_run_dispatch
    \/ other_run_render
    \/ other_run_complete

\* The steps of a debug toolbar.
NextToolbar ==
    \/ \E cfg \in PanelConfigs : Toolbar_init(cfg)
    \/ Toolbar_register_listeners
    \/ \E body \in Bodies, format \in Formats : Toolbar_render(body, format)

Spec == Init /\ [][Next]_vars
SpecToolbar == InitToolbar /\ [][NextToolbar]_vars
SpecConsole == InitConsole /\ [][NextConsole]_vars
SpecThreads == InitThreads /\ [][NextThreads]_vars
SpecApp == InitApp /\ [][NextApp]_vars

\* ------------------------------------------------------------ properties
Idx(name) == {i \in 1..Len(trace) : trace[i].ev = name}
AllRaised(name) == \A i \in Idx(name) : ~trace[i].ok
AllReturned(name) == \A i \in Idx(name) : trace[i].ok
Done == pc \in {"returned", "escaped"}
\* ROUTE_MATCH raised an ApplicationError in this run.
RouteFailed == \E i \in Idx("ROUTE_MATCH") : ~trace[i].ok /\ trace[i].exc.recognised
\* The calls of handle_exception made by run itself (lines 166, 180, 185).
RunCalls == {i \in Idx("handle_exception") : trace[i].depth = 1}

\* C1: failures never escape Http.run: whatever the listeners do, run ends
\* by returning exactly one Response, never by propagating a failure.
C1_FailuresNeverEscape ==
    /\ pc # "escaped"
    /\ pc = "returned" => returned \in 1..Len(responses)

\* C2: COMPLETE is fired exactly once per call of run, whichever branch the
\* run took.
C2_CompleteExactlyOnce ==
    /\ Count("COMPLETE") <= 1
    /\ Done => Count("COMPLETE") = 1

\* C3: when every dispatcher-driven render raises and every call of the
\* fallback render listener raises, handle_exception stops: at most two
\* EXCEPTION events are triggered and at most two frames are ever active, and
\* the failure of the fallback listener ends the run at once.
C3_RecursionGuard ==
    (AllRaised("RENDER_VIEW") /\ AllRaised("app_render_listener")) =>
        /\ Count("EXCEPTION") <= 2
        /\ Len(stack) <= 2
        /\ Count("app_render_listener") <= 1
        /\ Count("app_render_listener") = 1 => pc = "escaped" /\ stack = <<>>

C3_Witness ==
    /\ pc = "escaped"
    /\ Count("RENDER_VIEW") = 2 /\ AllRaised("RENDER_VIEW")
    /\ Count("app_render_listener") = 1 /\ AllRaised("app_render_listener")
    /\ Count("EXCEPTION") = 2

\* C4: handle_exception recurses at most once: never more than two frames of
\* it are active in a run.
C4_RecursesAtMostOnce == Len(stack) <= 2

\* C5: a run whose route matching yields no match (no truthy ROUTE_MATCH
\* result, or a recognised failure) never triggers DISPATCH_EXECUTE.
C5_NoMatchNoDispatch ==
    route_match # "route" => Count("DISPATCH_EXECUTE") = 0

C5_Witness ==
    /\ pc = "returned"
    /\ route_match = "none"
    /\ RouteFailed
    /\ Count("DISPATCH_EXECUTE") = 0

\* C6: with a matched route, a dispatch that succeeds with a view model
\* that is no Response, and renders that do not raise, RENDER_VIEW is
\* triggered exactly once, the fallback listener and EXCEPTION never, and the
\* Response returned is the controller's, written by that RENDER_VIEW.
C6_Case ==
    /\ route_match = "route"
    /\ \E i \in Idx("DISPATCH_EXECUTE") : trace[i].ok
    /\ response # 0
    /\ view_model # "response"
    /\ AllReturned("RENDER_VIEW")

C6_RenderedOnce ==
    C6_Case =>
        /\ Count("RENDER_VIEW") <= 1
        /\ Count("app_render_listener") = 0
        /\ Count("EXCEPTION") = 0
        /\ Count("handle_exception") = 0
        /\ pc \in {"complete", "returned"} =>
                /\ Count("RENDER_VIEW") = 1
                /\ \A i \in Idx("RENDER_VIEW") :
                        /\ trace[i].params.response = response
                        /\ trace[i].params.view_model = view_model
                /\ responses[response].origin = "controller"
                /\ responses[response].body = "RENDER_VIEW"
        /\ pc = "returned" => returned = response
        /\ pc # "escaped"

C6_Witness ==
    /\ C6_Case
    /\ pc = "returned"
    /\ view_model = "view"
    /\ responses[returned].body = "RENDER_VIEW"

\* C7: after a recognised failure of ROUTE_MATCH, handle_exception is
\* invoked exactly once in the run, whatever the render listeners do, and a
\* run that returns has fired COMPLETE after it.
C7_HandledExactlyOnce ==
    RouteFailed =>
        /\ Count("handle_exception") = 1
        /\ pc = "returned" => Count("COMPLETE") = 1 /\ trace[Len(trace)].ev = "COMPLETE"

\* C8: when ROUTE_MATCH raised a recognised failure with status s, the
\* Response run returns has status s and the view model is the first truthy
\* result of the EXCEPTION listeners called for that failure.
C8_RouterStatus ==
    (pc = "returned" /\ RouteFailed) =>
        /\ responses[returned].status = trace[1].exc.status
        /\ view_model = trace[3].first

\* The steps of a construction, in the order of Base.__init__.
InitOrder == <<"global_app", "config", "register_events", "INIT">>
StepNames(a) == [i \in 1..Len(init_log[a]) |-> init_log[a][i].step]
\* The identifiers config['events'][INIT] names.
ConfiguredForInit(a) ==
    {config[a].events.at[1][i].id : i \in 1..Len(config[a].events.at[1])}

\* C9: construction is strictly ordered: the global reference is set, the
\* configuration is applied and published, every configured listener is
\* registered, and only then INIT is fired, once; the listeners configured
\* for INIT receive it.
C9_ConstructionOrder ==
    \A a \in Apps :
        LET n == Len(init_log[a])
        IN  /\ n <= 4
            /\ StepNames(a) = SubSeq(InitOrder, 1, n)
            /\ n >= 1 => kind[a] # "none" /\ global_app >= a
            /\ n < 2 => ~config[a].set /\ ~container[a].created
            /\ n >= 2 => /\ config[a].set
                         /\ container[a].created
                         /\ container[a].app_config = config[a]
            /\ n < 3 => dispatcher[a] = <<>>
            /\ n >= 3 => dispatcher[a] = register_events(config[a].events, 1)
            /\ n = 4 => /\ ConfiguredForInit(a) \subseteq init_log[a][4].listeners
                        /\ init_log[a][4].listeners = listeners_of(dispatcher[a], "INIT")
            /\ Constructed(a) => n = 4

C9_Witness ==
    \E a \in Apps :
        /\ Constructed(a)
        /\ Len(init_log[a]) = 4
        /\ init_log[a][4].listeners = {"app.on_init", "app.once"}

\* Applications are numbered in the order of their construction.
Latest ==
    IF \A a \in Apps : kind[a] = "none" THEN 0
    ELSE CHOOSE a \in Apps : kind[a] # "none" /\ \A b \in Apps : kind[b] # "none" => b <= a

\* C10: Base.global_app is the most recently constructed application, and
\* no step of a run (Http.run, Console.run) changes it.
C10_GlobalApp ==
    /\ [](global_app = Latest)
    /\ [][(pc # "idle" \/ pc' # "idle" \/ runner' # runner) => global_app' = global_app]_vars

C10_Witness ==
    /\ Constructed(1) /\ kind[1] = "Http"
    /\ Constructed(2)
    /\ pc = "returned" /\ cur = 1
    /\ global_app = 2

\* ROUTE_MATCH returned without a truthy result and without raising.
SoftNotFound == \E i \in Idx("ROUTE_MATCH") : trace[i].ok /\ trace[i].first = "none"

\* C11: after a soft not-found run skips dispatch, still reaches the render
\* decision and COMPLETE, and returns a Response: it never fails on the
\* response and view model that the skipped stages did not produce.
C11_SoftNotFoundCompletes ==
    SoftNotFound =>
        /\ Count("DISPATCH_EXECUTE") = 0
        /\ pc # "escaped"
        /\ Done => Count("COMPLETE") = 1 /\ returned \in 1..Len(responses)

\* The events run itself triggered (depth 0) whose listeners raised.
StageFailures(name) == {i \in Idx(name) : trace[i].depth = 0 /\ ~trace[i].ok}
\* Entry i of the trace is followed by a call of handle_exception for its failure.
Diverted(i) ==
    /\ i < Len(trace)
    /\ trace[i + 1].ev = "handle_exception"
    /\ trace[i + 1].depth = 1
    /\ trace[i + 1].exc = trace[i].exc

\* C12: every failure raised by run's render stage, recognised or not, is
\* caught and handle_exception is entered with that failure as `exception`
\* together with `request` and `route_match`; in the route-match and dispatch
\* stages only a recognised failure is diverted to handle_exception, any
\* other one leaves run.
C12_RenderCatchesAll ==
    /\ \A i \in StageFailures("RENDER_VIEW") :
          /\ Diverted(i)
          /\ trace[i + 1].params.keys = {"exception", "request", "route_match"}
          /\ trace[i + 1].params.request = request
    /\ (stack # <<>> /\ stack[1].site = "render") =>
          /\ stack[1].pc # "return" =>
                stack[1].exception =
                    trace[CHOOSE i \in StageFailures("RENDER_VIEW") : TRUE].exc
          /\ stack[1].request = request
          /\ stack[1].route_match = route_match
    /\ \A i \in StageFailures("ROUTE_MATCH") \cup StageFailures("DISPATCH_EXECUTE") :
          IF trace[i].exc.recognised
          THEN Diverted(i)
          ELSE i = Len(trace) /\ pc = "escaped" /\ failure = trace[i].exc

C12_Witness ==
    /\ StageFailures("RENDER_VIEW") # {}
    /\ stack # <<>> /\ stack[1].site = "render"
    /\ stack[1].pc = "trigger"
    /\ stack[1].exception = OtherError
    /\ route_match = "route"

\* The first call of handle_exception made by run, when it was made from the
\* route-match or the dispatch stage; 0 otherwise.
EarlyCall ==
    IF \E i \in RunCalls : trace[i - 1].ev \in {"ROUTE_MATCH", "DISPATCH_EXECUTE"}
    THEN CHOOSE i \in RunCalls : trace[i - 1].ev \in {"ROUTE_MATCH", "DISPATCH_EXECUTE"}
    ELSE 0
\* The RENDER_VIEW events triggered by run's own render stage.
RunRenders == {i \in Idx("RENDER_VIEW") : trace[i].depth = 0}

\* C13: run renders only a view model that is not a Response. When the
\* first truthy DISPATCH_EXECUTE result is a Response, run triggers no
\* RENDER_VIEW and goes on to COMPLETE. When a route-match or dispatch failure
\* was handled by handle_exception, which rendered the error view model, run's
\* own render stage triggers RENDER_VIEW again with the same response and
\* view model, unless that view model is a Response.
C13_RenderUnlessResponse ==
    /\ \A i \in Idx("DISPATCH_EXECUTE") :
          (trace[i].ok /\ trace[i].first = "response" /\ response # 0) =>
              /\ Count("RENDER_VIEW") = 0
              /\ Count("handle_exception") = 0
              /\ pc \in {"render", "complete", "returned"}
    /\ (EarlyCall # 0 /\ stack = <<>> /\ pc \in {"complete", "returned"}) =>
          LET k == EarlyCall
          IN  /\ trace[k + 1].ev = "EXCEPTION"
              /\ trace[k + 2].ev = "RENDER_VIEW" /\ trace[k + 2].depth = 1
              /\ trace[k + 2].params.view_model = trace[k + 1].first
              /\ IF trace[k + 1].first = "response"
                 THEN RunRenders = {}
                 ELSE \E j \in RunRenders :
                         /\ j > k + 2
                         /\ trace[j].params.response = trace[k + 2].params.response
                         /\ trace[j].params.view_model = trace[k + 2].params.view_model

C13_Witness ==
    /\ pc = "returned"
    /\ EarlyCall # 0 /\ trace[EarlyCall - 1].ev = "DISPATCH_EXECUTE"
    /\ view_model = "error_view"
    /\ Count("RENDER_VIEW") = 2 /\ AllReturned("RENDER_VIEW")
    /\ RunRenders # {}

\* The renders of the handle_exception call entered at entry k of the trace:
\* the position of its dispatcher-driven render, were every earlier step of
\* the call to return.
LastSet(k) == trace[k].depth >= 2
RenderAt(k) == IF LastSet(k) THEN k + 3 ELSE k + 2
IsRender(j, name, d) == trace[j].ev = name /\ trace[j].depth = d

\* C14: in one call of handle_exception the fallback render is performed
\* exactly when last_exception is set, and before the dispatcher-driven
\* render, which every call attempts: a call entered with last_exception set
\* renders twice, the fallback listener once and then RENDER_VIEW once, and a
\* call entered without it never invokes the fallback listener. So once no
\* call is active any more, every call that was entered has its RENDER_VIEW
\* in the trace, after its fallback render if last_exception was set.
C14_FallbackThenRender ==
    /\ \A i \in 1..Len(stack) :
          /\ (stack[i].last_exception # NoneExc) <=> (i >= 2)
          /\ stack[i].pc = "fallback" => stack[i].last_exception # NoneExc
    /\ \A k \in Idx("handle_exception") :
          LET d == trace[k].depth
          IN  /\ k + 1 <= Len(trace) => IsRender(k + 1, "EXCEPTION", d)
              /\ (k + 2 <= Len(trace)) =>
                    IF LastSet(k)
                    THEN /\ IsRender(k + 2, "app_render_listener", d)
                         /\ k + 3 <= Len(trace) => IsRender(k + 3, "RENDER_VIEW", d)
                    ELSE IsRender(k + 2, "RENDER_VIEW", d)
              /\ stack = <<>> =>
                    /\ RenderAt(k) <= Len(trace)
                    /\ IsRender(RenderAt(k), "RENDER_VIEW", d)
                    /\ LastSet(k) => IsRender(k + 2, "app_render_listener", d)
    /\ \A j \in Idx("app_render_listener") :
          j > 2 /\ trace[j - 2].ev = "handle_exception" /\ LastSet(j - 2)

\* The latest event that render handed to the dispatcher in this run.
Triggered == Idx("RENDER_VIEW")
LastTriggered == CHOOSE j \in Triggered : \A i \in Triggered : i <= j

\* C15: render with the dispatcher stores its parameters in the container
\* under render_event_params and then triggers RENDER_VIEW, so the entry holds
\* the parameters of the latest triggered event even when a listener raised;
\* render without the dispatcher calls app_render_listener, triggers no event
\* and leaves the entry as it was. Both put the container into the event's
\* parameters under `container`.
C15_RenderPublishesParams ==
    Running =>
        /\ container[cur].render_event_params =
              IF Triggered = {} THEN NoParams ELSE trace[LastTriggered].params
        /\ \A j \in Triggered \cup Idx("app_render_listener") :
              "container" \in trace[j].params.keys

C15_Witness ==
    /\ Running
    /\ Len(trace) >= 2
    /\ trace[Len(trace)].ev = "app_render_listener" /\ trace[Len(trace)].ok
    /\ Triggered # {}
    /\ container[cur].render_event_params = trace[LastTriggered].params
    /\ container[cur].render_event_params # trace[Len(trace)].params

\* The renders whose listeners returned, by either path.
Rendered == {j \in 1..Len(trace) :
                trace[j].ev \in {"RENDER_VIEW", "app_render_listener"} /\ trace[j].ok}
LastRendered == CHOOSE j \in Rendered : \A i \in Rendered : i <= j
\* A dispatcher-driven render failed inside handle_exception and the nested
\* call recovered: its fallback render and its own render both returned.
Recovered ==
    \E k \in Idx("handle_exception") :
        /\ LastSet(k)
        /\ k + 3 <= Len(trace)
        /\ trace[k + 2].ok /\ trace[k + 3].ok

\* C16: when the RENDER_VIEW chain fails inside handle_exception and the
\* nested recovery succeeds, the Response that run returns is the one the
\* last successful render was given, whose body that render wrote.
C16_RecoveredResponseReturned ==
    (pc = "returned" /\ Recovered) =>
        /\ trace[LastRendered].params.response = returned
        /\ responses[returned].body # ""

\* The invocation of run in the first thread is between its first trigger
\* and its return.
InRun == pc \in {"route", "dispatch", "render", "complete"}

\* C17: the per-request state of a run is its own in every interleaving of
\* two invocations of run on one application: while a run is in progress the
\* container resolves `request` to the Request that this run registered, and
\* once the run has triggered RENDER_VIEW it resolves `render_event_params`
\* to the parameters that this run registered, never to those of the other
\* invocation; after sequential runs `request` is the Request of the latest.
C17_RunIsolation ==
    InRun =>
        /\ container[cur].request = request
        /\ Triggered # {} =>
              /\ container[cur].render_event_params = trace[LastTriggered].params
              /\ container[cur].render_event_params.request = request

\* The application has been through register_events.
Registered(a) == \E i \in 1..Len(init_log[a]) : init_log[a][i].step = "register_events"
\* The number of listener entries config['events'] holds for its keys before
\* the k-th.
RECURSIVE EntriesBefore(_, _)
EntriesBefore(events, k) ==
    IF k = 1 THEN 0
    ELSE Len(events.at[events.keys[k - 1]]) + EntriesBefore(events, k - 1)

\* C18: register_events adds one registration per listener entry of
\* config['events'], for the entry's event name and identifier, with the
\* priority and the once-only flag the entry carries and with 1 and False
\* where it carries none; no entry makes the construction raise, so every
\* application that was constructed has its registrations.
C18_OneRegistrationPerEntry ==
    \A a \in Apps :
        /\ Constructed(a) => Registered(a)
        /\ Registered(a) =>
              LET ev == config[a].events
              IN  /\ Len(dispatcher[a]) = EntriesBefore(ev, Len(ev.keys) + 1)
                  /\ \A k \in 1..Len(ev.keys) : \A i \in 1..Len(ev.at[ev.keys[k]]) :
                        LET r == dispatcher[a][EntriesBefore(ev, k) + i]
                            x == ev.at[ev.keys[k]][i]
                        IN  /\ r.event = EventNames[ev.keys[k]]
                            /\ r.listener = x.id
                            /\ r.priority = IF x.has_priority THEN x.priority ELSE 1
                            /\ r.once_only = IF x.has_once_only THEN x.once_only ELSE FALSE

C18_Witness ==
    \E a \in Apps :
        /\ Constructed(a)
        /\ Len(dispatcher[a]) = 4
        /\ dispatcher[a][1].event = "ROUTE_MATCH" /\ dispatcher[a][2].event = "RENDER_VIEW"
        /\ dispatcher[a][3] = [event |-> "INIT", listener |-> "app.on_init",
                               priority |-> 1, once_only |-> FALSE]
        /\ dispatcher[a][4] = [event |-> "INIT", listener |-> "app.once",
                               priority |-> 5, once_only |-> TRUE]

\* C19: the container of an application is created lazily and at most once:
\* every later access returns the container the first access built. A
\* container that an application holds resolves `application` to that
\* application, and after every assignment to config it resolves
\* `application.config` to the current merged configuration.
C19_ContainerOnce ==
    \A a \in Apps :
        /\ container[a].builds <= 1
        /\ container[a].created <=> container[a].builds = 1
        /\ container[a].created =>
              /\ "application" \notin container[a].command_entries
              /\ container[a].application = a
        /\ kind[a] = "none" => ~container[a].created
        /\ config[a].set =>
              /\ container[a].created
              /\ "application.config" \notin container[a].command_entries
              /\ container[a].app_config = config[a]

\* The panels whose settings are enabled.
Enabled == {i \in PanelIds : toolbar.config[i]}

\* C20: Toolbar.render, registered for RENDER_VIEW at priority -1000, changes
\* the body of the response only when the format of the view model is 'html'
\* and leaves it as it was for every other format; in every case the event
\* of each enabled panel is the current render event. Only the panels whose
\* settings are enabled are instantiated and have their listeners registered.
C20_ToolbarRender ==
    /\ toolbar.pc # "none" =>
          /\ Range(toolbar.panels) = Enabled
          /\ \A i \in PanelIds : toolbar.panel_listening[i] <=> i \in Enabled
          /\ \A i \in PanelIds \ Enabled : toolbar.panel_event[i] = 0
    /\ toolbar.pc = "listening" =>
          toolbar.listeners = <<[event |-> "RENDER_VIEW", listener |-> "Toolbar.render",
                                 priority |-> 0 - 1000, once_only |-> FALSE]>>
    /\ toolbar.event > 0 =>
          /\ toolbar.format # "html" => toolbar.body = toolbar.before
          /\ toolbar.body # toolbar.before =>
                toolbar.format = "html" /\ "</body>" \in Range(toolbar.before)
          /\ \A i \in Enabled : toolbar.panel_event[i] = toolbar.event

C20_Witness ==
    /\ toolbar.event = 2
    /\ toolbar.format = "html"
    /\ toolbar.before = <<"text", "</body>">>
    /\ toolbar.body = <<"text", "TEMPLATE", "</body>">>
    /\ Enabled = {1}
    /\ toolbar.panels = <<1>>
    /\ toolbar.panel_event = [i \in PanelIds |-> IF i = 1 THEN 2 ELSE 0]

====
